---- MODULE Spec2Model ----
(***************************************************************************)
(* jackrabbit: the connection manager and one Exchange                     *)
(* (src/src/exchange.ts), the exchange's hidden reply Queue "rq" and one   *)
(* Queue "uq" created through exchange.queue() (src/src/queue.ts), driven  *)
(* by a caller and by the AMQP client library.                             *)
(*                                                                         *)
(* One action is one scheduling turn of the Node event loop: a caller's    *)
(* turn (connect, publish, queue) or one callback of the AMQP client,      *)
(* run to completion together with the microtasks it leaves behind.        *)
(* The handlers are operators on a record s of the whole program state, so *)
(* that a handler calling another handler is operator application.         *)
(* An exception that no handler catches ends the process (thrown).         *)
(* Channel-open requests complete in the order they were made on the       *)
(* connection; a request pending on a closed channel completes only with   *)
(* an error.                                                               *)
(*                                                                         *)
(* Spec covers readiness, buffered publishes and binding; SpecDrain the    *)
(* in-flight counter and "drain"; SpecReply request and reply; SpecCancel  *)
(* the cancelling of a consumer; SpecManager the connection manager and    *)
(* the construction of an exchange.                                        *)
(***************************************************************************)
EXTENDS Integers, Sequences, FiniteSets, TLC

\* ------------------------------------------------------------- bounds
MaxPublish == 3      \* publish() calls made by the caller
MaxKeys == 2         \* routing keys given to one queue() call
MaxFailures == 1     \* failures the broker injects (errors, channel closes)
MaxStrays == 1       \* messages other publishers put into the reply queue
MaxCancels == 2      \* cancel() calls made by the caller
MaxCloses == 2       \* close() calls made on the connection manager
MaxPurges == 2       \* purge(done) calls made on the queue
MaxMalformed == 1    \* messages with a body that is not JSON put into the queue

Prefetch == 1        \* Queue.DEFAULT_QUEUE_OPTIONS.prefetch

Queues == {"rq", "uq"}
Owners == {"ex", "rq", "uq"}

\* JavaScript's undefined where a string is expected, and !str.
Undefined == "<undefined>"
Empty(str) == str \in {Undefined, ""}

\* Names, types and broker URLs a caller passes.
Names == {Undefined, "", "foobar", "amq.direct"}
Types == {Undefined, "", "direct", "fanout", "topic", "headers"}
Urls == {Undefined, "", "amqp://localhost"}

VARIABLES
    noReply,        \* options.noReply of the exchange
    exMade,         \* the Exchange constructor: none (not called), made, invalid (it threw)
    exName,         \* Exchange.name
    exType,         \* Exchange.type
    argName,        \* history: the name argument the constructor was given
    argType,        \* history: the type argument the constructor was given
    argUrl,         \* history: the url argument the jackrabbit factory was given
    newError,       \* history: the message of the error the constructor threw
    nConnects,      \* history: how often Exchange.connect was called
    madeWithConn,   \* history: the manager had its connection when the exchange was made
    jackrabbit,     \* the connection manager: made, #connection, listeners, events emitted
    connectReq,     \* amqp.connect: none, pending, ok, failed
    connectAttempts,\* history: how often amqp.connect was called
    bconn,          \* the client library's connection: none, open, closing, closed
    closeReqs,      \* connection.close requests in flight
    closeCalls,     \* close() calls made on the manager
    closeLog,       \* history: completion handler calls and "close" emissions of the manager, in order
    connAtClose,    \* history: #connection as a listener of the manager's "close" found it, per emission
    exReady,        \* Exchange.#ready
    exConn,         \* Exchange.#connection is set
    exChan,         \* Exchange.#channel is set
    publishing,     \* Exchange.#publishing
    pendingReplies, \* Exchange.#pendingReplies: records [corr, cb], cb the publish call owning the callback
    nextCorr,       \* the correlation ids v4() has generated so far
    exReadyL,       \* listeners of the exchange's "ready", in registration order
    qChan,          \* Queue.channel is set, per queue
    qName,          \* Queue.name is set, per queue
    qTag,           \* Queue.consumerTag is set, per queue
    qReadyL,        \* listeners of each queue's "ready", in registration order
    openReqs,       \* createChannel requests in flight on the connection, oldest first
    bchan,          \* the client library's channel of each owner: none, open, closed
    exDeclare,      \* assertExchange: none, pending, done, failed, or skipped (no declare is issued)
    qDeclare,       \* assertQueue per queue: none, pending, done, failed
    qConsume,       \* channel.consume per queue: none, pending, ok, failed
    uqKeys,         \* -1 before queue() is called, else the number of keys queue() binds
    uqOptions,      \* the options queue() was called with
    bindSt,         \* per routing key of uq: none, pending, ok, err
    bindSettled,    \* the Promise.all of #bindKeys has settled
    bindOrder,      \* history: the keys in the order their bindQueue completed
    immediates,     \* setImmediate callbacks of onDrain not yet run
    saturated,      \* the exchange channel's write buffer is full
    everSaturated,  \* history: some channel.publish has returned false
    bursts,         \* history: turns in which the caller called publish()
    failures,       \* failures injected so far
    connected,      \* Exchange.connect() has been called
    userL,          \* the caller has registered its own "ready" listener
    userConsume,    \* the caller has called uq.consume(callback)
    uqStore,        \* the broker's queue behind uq: messages [m, corr, replyTo, body], oldest first
    uqHeld,         \* messages handed to the caller's consume callback and not yet acked
    uqUnacked,      \* messages delivered to uq's consumer that the broker holds unacknowledged
    cancelCalls,    \* uq.cancel(done) calls made so far
    cancelReqs,     \* channel.cancel requests in flight on uq's channel: the tag each carries
    cancelOks,      \* how often a cancel's done was called back with ok
    uqCancelled,    \* the broker has removed uq's consumer
    cancelledAt,    \* history: Len(sent) when a cancel first completed with ok, -1 before
    rqInbox,        \* the broker's queue behind rq: messages [corr, body], oldest first
    strays,         \* messages of other publishers delivered from the reply queue
    purgeAt,        \* history: per uq.purge(done) call, whether uq had its channel
    purgeReqs,      \* channel.purgeQueue requests in flight on uq's channel, oldest
                    \* first: [atCall, ahead], the messages in the queue and the
                    \* purge requests in flight when the request was made
    purgeOks,       \* purge requests the broker has carried out
    purgeLog,       \* history: the calls of done: [atCall, ahead, count]
    exCloseErr,     \* history: the error the exchange's last "close" carried
    qConnects,      \* history: calls of Queue.connect, per queue
    uqMadeAt,       \* history, kept by CreateQueueAt: what the exchange was when
                    \* queue() was called: none, unconnected, connected, closed
    nullOps,        \* history: operations attempted on an unset channel or connection
    bindBails,      \* history: how often the catch of #bindKeys ran the exchange's bail
    uqDecoded,      \* history: the messages delivered to uq whose body decoded, in order
    uqGot,          \* history: the messages passed to the callback given to uq.consume, in order
    qLog,           \* history: the steps Queue.connect has taken, per queue, in order
    qCloseErr,      \* history: the error the last "close" of each queue carried
    malformed,      \* messages with a malformed body other publishers have put into uq
    malformedDelivered, \* history: malformed messages handed to uq's delivery handler
    sentOpts,       \* history: the options of each channel.publish of the exchange, in order
    ackLog,         \* history: the ack(reply) calls a consumer made, and whether each published a reply
    acks,           \* history: [corr, data] for each ack(data) of a request with correlation id corr
    replyCalls,     \* history: [cb, corr, data] for each reply callback invoked, in order
    nCalls,         \* publish() calls made so far; call i is message i
    nAtReady,       \* nCalls at the moment "ready" was emitted, -1 before
    sent,           \* messages handed to channel.publish, in order
    sendsAtDrain,   \* Len(sent) at each "drain" emitted, in order
    emitted,        \* how often each exchange event was emitted
    qEmitted,       \* how often each queue emitted ready / close / bound
    thrown          \* an uncaught exception ended the process

vars == << noReply, exMade, exName, exType, argName, argType, argUrl,
           newError, nConnects,
           madeWithConn, jackrabbit, connectReq, connectAttempts, bconn,
           closeReqs, closeCalls, closeLog, connAtClose,
           exReady, exConn, exChan, publishing,
           pendingReplies, nextCorr, userConsume, uqStore, uqHeld, uqUnacked,
           cancelCalls, cancelReqs, cancelOks, uqCancelled, cancelledAt,
           rqInbox, sentOpts, ackLog, qLog, qCloseErr, malformed,
           malformedDelivered, purgeAt, purgeReqs, purgeOks, purgeLog,
           exCloseErr, qConnects, uqMadeAt, nullOps, bindBails, uqOptions,
           uqDecoded, uqGot,
           strays, acks, replyCalls, exReadyL,
           qChan, qName, qTag, qReadyL, openReqs, bchan, exDeclare, qDeclare,
           qConsume, uqKeys, bindSt, bindSettled, bindOrder, immediates, saturated,
           everSaturated, bursts,
           failures, connected, userL, nCalls, nAtReady, sent,
           sendsAtDrain, emitted, qEmitted, thrown >>

\* The program state as one record, and its write-back. Two fields live only
\* while a turn runs: micro, the microtasks the turn has left behind, and
\* okSends, the sends the channel's write buffer still takes in this turn.
Cur ==
    [ exMade |-> exMade, exName |-> exName, exType |-> exType,
      argName |-> argName, argType |-> argType, argUrl |-> argUrl,
      newError |-> newError, nConnects |-> nConnects,
      madeWithConn |-> madeWithConn, jackrabbit |-> jackrabbit,
      connectReq |-> connectReq, connectAttempts |-> connectAttempts,
      bconn |-> bconn, closeReqs |-> closeReqs, closeCalls |-> closeCalls,
      closeLog |-> closeLog, connAtClose |-> connAtClose,
      exReady |-> exReady, exConn |-> exConn, exChan |-> exChan,
      publishing |-> publishing, exReadyL |-> exReadyL,
      pendingReplies |-> pendingReplies, nextCorr |-> nextCorr,
      userConsume |-> userConsume, uqStore |-> uqStore, uqHeld |-> uqHeld,
      uqUnacked |-> uqUnacked, rqInbox |-> rqInbox, strays |-> strays, acks |-> acks,
      cancelCalls |-> cancelCalls, cancelReqs |-> cancelReqs,
      cancelOks |-> cancelOks, uqCancelled |-> uqCancelled,
      cancelledAt |-> cancelledAt,
      replyCalls |-> replyCalls, sentOpts |-> sentOpts, ackLog |-> ackLog,
      qLog |-> qLog, qCloseErr |-> qCloseErr, malformed |-> malformed,
      malformedDelivered |-> malformedDelivered,
      purgeAt |-> purgeAt, purgeReqs |-> purgeReqs, purgeOks |-> purgeOks,
      purgeLog |-> purgeLog,
      exCloseErr |-> exCloseErr, qConnects |-> qConnects, uqMadeAt |-> uqMadeAt,
      nullOps |-> nullOps, bindBails |-> bindBails, uqOptions |-> uqOptions,
      uqDecoded |-> uqDecoded, uqGot |-> uqGot,
      qChan |-> qChan, qName |-> qName, qTag |-> qTag, qReadyL |-> qReadyL,
      openReqs |-> openReqs, bchan |-> bchan, exDeclare |-> exDeclare,
      qDeclare |-> qDeclare, qConsume |-> qConsume, uqKeys |-> uqKeys,
      bindSt |-> bindSt, bindSettled |-> bindSettled, bindOrder |-> bindOrder, micro |-> <<>>,
      immediates |-> immediates, saturated |-> saturated, okSends |-> 0,
      everSaturated |-> everSaturated, bursts |-> bursts,
      failures |-> failures, connected |-> connected, userL |-> userL,
      nCalls |-> nCalls, nAtReady |-> nAtReady, sent |-> sent,
      sendsAtDrain |-> sendsAtDrain, emitted |-> emitted,
      qEmitted |-> qEmitted, thrown |-> thrown ]

Commit(s) ==
    /\ exReady' = s.exReady /\ exConn' = s.exConn /\ exChan' = s.exChan
    /\ publishing' = s.publishing /\ exReadyL' = s.exReadyL
    /\ pendingReplies' = s.pendingReplies /\ nextCorr' = s.nextCorr
    /\ userConsume' = s.userConsume /\ uqStore' = s.uqStore
    /\ uqUnacked' = s.uqUnacked
    /\ cancelCalls' = s.cancelCalls /\ cancelReqs' = s.cancelReqs
    /\ cancelOks' = s.cancelOks /\ uqCancelled' = s.uqCancelled
    /\ cancelledAt' = s.cancelledAt
    /\ uqHeld' = s.uqHeld /\ rqInbox' = s.rqInbox /\ strays' = s.strays
    /\ acks' = s.acks /\ replyCalls' = s.replyCalls
    /\ sentOpts' = s.sentOpts /\ ackLog' = s.ackLog
    /\ qLog' = s.qLog /\ qCloseErr' = s.qCloseErr
    /\ malformed' = s.malformed /\ malformedDelivered' = s.malformedDelivered
    /\ purgeAt' = s.purgeAt /\ purgeReqs' = s.purgeReqs
    /\ purgeOks' = s.purgeOks /\ purgeLog' = s.purgeLog
    /\ exCloseErr' = s.exCloseErr /\ qConnects' = s.qConnects
    /\ uqMadeAt' = s.uqMadeAt /\ nullOps' = s.nullOps
    /\ bindBails' = s.bindBails /\ uqOptions' = s.uqOptions
    /\ uqDecoded' = s.uqDecoded /\ uqGot' = s.uqGot
    /\ qChan' = s.qChan /\ qName' = s.qName /\ qTag' = s.qTag
    /\ qReadyL' = s.qReadyL /\ openReqs' = s.openReqs /\ bchan' = s.bchan
    /\ exDeclare' = s.exDeclare /\ qDeclare' = s.qDeclare
    /\ qConsume' = s.qConsume /\ uqKeys' = s.uqKeys /\ bindSt' = s.bindSt
    /\ bindSettled' = s.bindSettled /\ bindOrder' = s.bindOrder
    /\ immediates' = s.immediates /\ saturated' = s.saturated
    /\ everSaturated' = s.everSaturated /\ bursts' = s.bursts
    /\ failures' = s.failures
    /\ connected' = s.connected /\ userL' = s.userL /\ nCalls' = s.nCalls
    /\ nAtReady' = s.nAtReady /\ sent' = s.sent
    /\ sendsAtDrain' = s.sendsAtDrain /\ emitted' = s.emitted
    /\ qEmitted' = s.qEmitted /\ thrown' = s.thrown
    /\ exMade' = s.exMade /\ exName' = s.exName /\ exType' = s.exType
    /\ argName' = s.argName /\ argType' = s.argType /\ argUrl' = s.argUrl
    /\ newError' = s.newError
    /\ nConnects' = s.nConnects /\ madeWithConn' = s.madeWithConn
    /\ jackrabbit' = s.jackrabbit /\ connectReq' = s.connectReq
    /\ connectAttempts' = s.connectAttempts /\ bconn' = s.bconn
    /\ closeReqs' = s.closeReqs /\ closeCalls' = s.closeCalls
    /\ closeLog' = s.closeLog /\ connAtClose' = s.connAtClose
    /\ UNCHANGED noReply

\* A TypeError on an unset reference, caught by nobody.
Throw(s) == [s EXCEPT !.thrown = TRUE]

\* A method called on a reference that is undefined: a TypeError.
NullOp(s) == Throw([s EXCEPT !.nullOps = @ + 1])

\* ------------------------------------------------------------ exchange

isDefaultType(type) == type \in {"direct", "fanout", "topic"}

DEFAULT_EXCHANGES ==
    [direct |-> "amq.direct", fanout |-> "amq.fanout", topic |-> "amq.topic"]

isNameless == exName = ""
isDefault == isDefaultType(exType) /\ DEFAULT_EXCHANGES[exType] = exName

\* How the exchange's name resolved: nameless (""), default (amq.*), named.
exKind ==
    IF isNameless THEN "nameless" ELSE IF isDefault THEN "default" ELSE "named"

NoError == "<none>"

\* Faulty variant of the constructor: the empty name is not kept, it takes
\* the default name like a missing one.
newExchangeNoNameless(name, type) ==
    IF Empty(type) THEN [error |-> "missing exchange type", name |-> Undefined]
    ELSE LET _name == IF ~Empty(name) THEN name
                      ELSE IF isDefaultType(type) THEN DEFAULT_EXCHANGES[type]
                      ELSE ""
         IN  IF Empty(_name)
             THEN [error |-> "missing exchange name", name |-> Undefined]
             ELSE [error |-> NoError, name |-> _name]

\* Faulty variant of the constructor: the type is not validated.
newExchangeAnyType(name, type) ==
    IF name = "" THEN [error |-> NoError, name |-> ""]
    ELSE LET _name == IF ~Empty(name) THEN name
                      ELSE IF isDefaultType(type) THEN DEFAULT_EXCHANGES[type]
                      ELSE ""
         IN  IF Empty(_name)
             THEN [error |-> "missing exchange name", name |-> Undefined]
             ELSE [error |-> NoError, name |-> _name]

\* The name validation of the Exchange constructor: the error it throws, or
\* the name the exchange gets.
resolveName(name, type) ==
    IF Empty(type) THEN [error |-> "missing exchange type", name |-> Undefined]
    ELSE IF name = "" THEN [error |-> NoError, name |-> ""]
    ELSE LET _name == IF ~Empty(name) THEN name
                      ELSE IF isDefaultType(type) THEN DEFAULT_EXCHANGES[type]
                      ELSE ""
         IN  IF Empty(_name)
             THEN [error |-> "missing exchange name", name |-> Undefined]
             ELSE [error |-> NoError, name |-> _name]

\* new Exchange(name, type, options): throws, or sets name and type.
newExchange(s, name, type) ==
    LET e == resolveName(name, type)
    IN  IF e.error # NoError
        THEN [s EXCEPT !.exMade = "invalid", !.argName = name,
                       !.argType = type, !.newError = e.error]
        ELSE [s EXCEPT !.exMade = "made", !.argName = name,
                       !.argType = type, !.exName = e.name, !.exType = type]

\* The errors a "close" carries: of a closed channel, of a failed request,
\* of a failed bindQueue, of a call on an unset reference.
ChannelClosedError == "Channel closed"
BrokerError == "<err>"
BindError == "<bind err>"
TypeError == "TypeError"

\* Exchange.bail(err): clear the connection and the channel, emit "close"
\* with the error.
bail(s, err) ==
    [s EXCEPT !.exConn = FALSE, !.exChan = FALSE, !.emitted.close = @ + 1,
              !.exCloseErr = err]

\* The setImmediate callback of Exchange.onDrain: decrement the in-flight
\* counter and emit "drain" when it reaches zero.
onDrainCallback(s) ==
    LET s0 == [s EXCEPT !.publishing = @ - 1]
    IN  IF s0.publishing = 0
        THEN [s0 EXCEPT !.emitted.drain = @ + 1,
                        !.sendsAtDrain = Append(@, Len(s0.sent))]
        ELSE s0

\* Faulty variant of onDrain: the decrement is made at once, in the turn of
\* the send.
onDrainSync(s) == onDrainCallback(s)

\* Exchange.onDrain: the decrement is put off to a setImmediate callback.
onDrain(s) == [s EXCEPT !.immediates = @ + 1]

\* JavaScript values a caller passes as a message or as a reply, by name.
JsValues == {"undefined", "null", "false", "zero", "empty", "text"}
Truthy(v) == v = "text"

\* JSON.stringify: the JSON text of a value; undefined has none.
NoText == "<undefined>"
stringify(v) ==
    CASE v = "null" -> "null"
      [] v = "false" -> "false"
      [] v = "zero" -> "0"
      [] v = "empty" -> "\"\""
      [] v = "text" -> "\"text\""
      [] OTHER -> NoText

\* JSON.parse: the value of a JSON text.
SyntaxError == "<SyntaxError>"
parse(t) ==
    CASE t = "null" -> "null"
      [] t = "false" -> "false"
      [] t = "0" -> "zero"
      [] t = "\"\"" -> "empty"
      [] t = "\"text\"" -> "text"
      [] OTHER -> SyntaxError

\* The broker routes a message published on the exchange to uq once uq is
\* declared and, unless the exchange is nameless, bound by some key.
routedToUq(s) ==
    /\ s.qDeclare["uq"] = "done"
    /\ isNameless \/ \E k \in 1..MaxKeys : s.bindSt[k] = "ok"

\* channel.publish of the client library: TRUE while the write buffer takes
\* the message, FALSE from the send that fills it until the channel's "drain".
channelPublish(s, msg) ==
    LET drained == ~s.saturated /\ s.okSends > 0
    IN  [s EXCEPT !.sent = Append(@, msg.m),
                  !.sentOpts = Append(@, [m |-> msg.m, correlationId |-> msg.corr,
                                          replyTo |-> msg.replyTo,
                                          reply |-> msg.reply]),
                  !.saturated = ~drained,
                  !.everSaturated = @ \/ ~drained,
                  !.okSends = IF drained THEN @ - 1 ELSE @,
                  !.uqStore = IF routedToUq(s) THEN Append(@, msg) ELSE @]

\* Exchange.encodeMessage with the default content type application/json,
\* followed by Buffer.from, which throws on undefined.
encodeMessage(v) == stringify(v)

\* Faulty variant of sendMessage: the correlation id is not a new one, and
\* the reply option stays in the options of the send.
sendMessageStale(s, m, reply, v) ==
    LET body == encodeMessage(v)
        corr == 1
        s1 == IF ~reply THEN s
              ELSE IF noReply THEN Throw(s)
              ELSE [s EXCEPT !.nextCorr = corr,
                             !.pendingReplies = @ \cup {[corr |-> corr, cb |-> m]}]
    IN  IF s1.thrown THEN s1
        ELSE IF ~s1.exChan THEN NullOp(s1)
        ELSE IF body = NoText THEN Throw(s1)
        ELSE LET s2 == channelPublish(s1,
                           [m |-> m, corr |-> IF reply THEN corr ELSE 0,
                            replyTo |-> reply /\ s1.qName["rq"],
                            reply |-> reply,
                            body |-> body])
             IN  IF ~s2.saturated THEN onDrain(s2) ELSE s2

\* sendMessage of Exchange.publish: with a reply callback, v4() gives the
\* correlation id, the callback goes into #pendingReplies under it, replyTo
\* is the reply queue's name and the reply option is deleted.
sendMessage(s, m, reply, v) ==
    LET body == encodeMessage(v)
        corr == s.nextCorr + 1
        s1 == IF ~reply THEN s
              ELSE IF noReply THEN Throw(s)
              ELSE [s EXCEPT !.nextCorr = corr,
                             !.pendingReplies = @ \cup {[corr |-> corr, cb |-> m]}]
    IN  IF s1.thrown THEN s1
        ELSE IF ~s1.exChan THEN NullOp(s1)
        ELSE IF body = NoText THEN Throw(s1)
        ELSE LET s2 == channelPublish(s1,
                           [m |-> m, corr |-> IF reply THEN corr ELSE 0,
                            replyTo |-> reply /\ s1.qName["rq"],
                            reply |-> FALSE,
                            body |-> body])
             IN  IF ~s2.saturated THEN onDrain(s2) ELSE s2

\* Exchange.publish(message, options).
publish(s, reply, v) ==
    LET m  == s.nCalls + 1
        s1 == [s EXCEPT !.publishing = @ + 1, !.nCalls = m]
    IN  IF s1.exReady THEN sendMessage(s1, m, reply, v)
        ELSE [s1 EXCEPT !.exReadyL =
                  Append(@, [k |-> "send", m |-> m, reply |-> reply, v |-> v])]

\* n publish() calls in one turn.
RECURSIVE publishBurst(_, _, _, _)
publishBurst(n, s, reply, v) ==
    IF n = 0 \/ s.thrown THEN s
    ELSE publishBurst(n - 1, publish(s, reply, v), reply, v)

\* Queue.connect(connection), called by the exchange with its #connection.
queueConnect(s, q) ==
    LET s1 == [s EXCEPT !.qConnects[q] = @ + 1]
    IN  IF ~s1.exConn THEN NullOp(s1)
        ELSE [s1 EXCEPT !.openReqs = Append(@, q)]

\* The options of queue(): key, and keys when given.
NoKey == [key |-> Undefined, given |-> FALSE, keys |-> <<>>]
OneKey == [key |-> "k", given |-> FALSE, keys |-> <<>>]
ManyKeys(n) == [key |-> Undefined, given |-> TRUE, keys |-> [i \in 1..n |-> "k"]]
QueueOptions == {NoKey, OneKey} \cup {ManyKeys(n) : n \in 2..MaxKeys}

\* (options?.keys || [options?.key]).filter(Boolean): the keys given, else
\* the one key given, without those that are undefined or empty.
routingKeys(options) ==
    LET Boolean(k) == ~Empty(k)
    IN  SelectSeq(IF options.given THEN options.keys ELSE << options.key >>,
                  Boolean)

\* Exchange.#createQueue(options): a queue whose "ready" binds the keys;
\* it is connected now when the exchange has a connection, else when the
\* exchange emits "ready".
createQueue(s, options) ==
    LET s1 == [s EXCEPT !.uqOptions = options,
                        !.uqKeys = Len(routingKeys(options)),
                        !.qReadyL["uq"] = Append(@, "bind")]
    IN  IF s1.exConn THEN queueConnect(s1, "uq")
        ELSE [s1 EXCEPT !.exReadyL =
                  Append(@, [k |-> "connectQueue", m |-> 0,
                             reply |-> FALSE, v |-> "text"])]

\* emit("ready") of the exchange: the first n listeners registered, each a
\* once-listener that is removed as it is called.
RECURSIVE emitExReady(_, _)
emitExReady(n, s) ==
    IF n = 0 \/ s.thrown THEN s
    ELSE LET l  == Head(s.exReadyL)
             s1 == [s EXCEPT !.exReadyL = Tail(@)]
             s2 == CASE l.k = "send" -> sendMessage(s1, l.m, l.reply, l.v)
                      [] l.k = "user" -> publish(s1, FALSE, "text")
                      [] l.k = "connectQueue" -> queueConnect(s1, "uq")
         IN  emitExReady(n - 1, s2)

\* isReady of Exchange.onExchange.
isReady(s) ==
    LET s1 == [s EXCEPT !.exReady = TRUE,
                        !.emitted.ready = @ + 1,
                        !.nAtReady = IF @ = -1 THEN s.nCalls ELSE @]
    IN  emitExReady(Len(s1.exReadyL), s1)

\* Faulty variant of onExchange: ready is declared without waiting for the
\* reply queue.
onExchangeNoJoin(s, err) ==
    IF err THEN bail(s, BrokerError)
    ELSE IF ~noReply
         THEN LET s1 == queueConnect(s, "rq")
              IN  IF s1.thrown THEN s1 ELSE isReady(s1)
         ELSE isReady(s)

\* Exchange.onExchange(err, info).
onExchange(s, err) ==
    IF err THEN bail(s, BrokerError)
    ELSE IF ~noReply
         THEN LET s1 == queueConnect(s, "rq")
              IN  IF s1.thrown THEN s1
                  ELSE [s1 EXCEPT !.qReadyL["rq"] = Append(@, "isReady")]
         ELSE isReady(s)

\* Exchange.onChannel(err, chan).
onChannel(s, err) ==
    IF err THEN bail(s, BrokerError)
    ELSE LET s1 == [s EXCEPT !.exChan = TRUE, !.bchan["ex"] = "open",
                             !.emitted.connected = @ + 1]
         IN  IF isDefault \/ isNameless
             THEN onExchange([s1 EXCEPT !.exDeclare = "skipped"], FALSE)
             ELSE [s1 EXCEPT !.exDeclare = "pending"]

\* Faulty variant of consume: the request is issued at once when the queue
\* has a channel, declared or not.
queueConsumeNow(s, q) ==
    IF s.qChan[q] THEN [s EXCEPT !.qConsume[q] = "pending"]
    ELSE [s EXCEPT !.qReadyL[q] = Append(@, "consume")]

\* Queue.consume(callback, options): a once-listener of the queue's "ready"
\* will issue channel.consume.
queueConsume(s, q) ==
    [s EXCEPT !.qReadyL[q] = Append(@, "consume")]

\* Exchange.connect(con): keep the connection, ask it for a channel, and
\* start consuming from the reply queue once that queue is ready.
connect(s) ==
    LET s1 == [s EXCEPT !.connected = TRUE, !.nConnects = @ + 1,
                        !.exConn = TRUE, !.openReqs = Append(@, "ex")]
    IN  IF noReply THEN s1
        ELSE queueConsume(s1, "rq")

\* --------------------------------------------------------------- queue

\* Queue.bail: clear channel, name and consumer tag, emit "close"; the
\* exchange listens to "close" of both its queues with its own bail.

\* Faulty variant of Queue.bail: the queue's "close" has no listener.
queueBailUnwired(s, q, err) ==
    [s EXCEPT !.qChan[q] = FALSE, !.qName[q] = FALSE, !.qTag[q] = FALSE,
              !.qEmitted[q].close = @ + 1, !.qCloseErr[q] = err]

\* Faulty variant of Queue.bail: the consumer tag is kept.
queueBailKeepTag(s, q, err) ==
    bail([s EXCEPT !.qChan[q] = FALSE, !.qName[q] = FALSE,
                   !.qEmitted[q].close = @ + 1, !.qCloseErr[q] = err], err)

queueBail(s, q, err) ==
    bail([s EXCEPT !.qChan[q] = FALSE, !.qName[q] = FALSE, !.qTag[q] = FALSE,
                   !.qEmitted[q].close = @ + 1, !.qCloseErr[q] = err], err)

\* The once("ready") listener of Exchange.#createQueue: bind every key.
bindKeys(s) ==
    IF isNameless THEN s
    ELSE IF ~s.exChan
         THEN [s EXCEPT !.bindSettled = TRUE, !.nullOps = @ + 1,
                        !.micro = Append(@, TypeError)]
         ELSE IF s.uqKeys = 0
              THEN [s EXCEPT !.bindSettled = TRUE, !.micro = Append(@, "bound")]
              ELSE [s EXCEPT !.bindSt =
                        [k \in 1..MaxKeys |-> IF k <= s.uqKeys THEN "pending" ELSE "none"]]

\* Faulty variant of onBind: "bound" is emitted when the first key is bound,
\* as Promise.race or Promise.any would.
onBindAny(s, k, err) ==
    LET s0 == [s EXCEPT !.bindSt[k] = IF err THEN "err" ELSE "ok",
                        !.bindOrder = Append(@, k)]
    IN  IF s0.bindSettled THEN s0
        ELSE [s0 EXCEPT !.bindSettled = TRUE,
                        !.micro = Append(@, IF err THEN BindError ELSE "bound")]

\* Faulty variant of onBind: every failed key runs the catch, as a catch on
\* each key's promise would.
onBindEach(s, k, err) ==
    LET s0 == [s EXCEPT !.bindSt[k] = IF err THEN "err" ELSE "ok",
                        !.bindOrder = Append(@, k)]
        all == \A i \in 1..MaxKeys : s0.bindSt[i] \in {"none", "ok"}
    IN  IF err
        THEN [s0 EXCEPT !.bindSettled = TRUE, !.micro = Append(@, BindError)]
        ELSE IF all /\ ~s0.bindSettled
        THEN [s0 EXCEPT !.bindSettled = TRUE, !.micro = Append(@, "bound")]
        ELSE s0

\* The bindQueue callback of key k in #bindKeys settles the key's promise;
\* Promise.all settles once, on the first error or when every key is bound,
\* and its reaction (emit "bound", or bail) runs as a microtask.
onBind(s, k, err) ==
    LET s0 == [s EXCEPT !.bindSt[k] = IF err THEN "err" ELSE "ok",
                        !.bindOrder = Append(@, k)]
        all == \A i \in 1..MaxKeys : s0.bindSt[i] \in {"none", "ok"}
    IN  IF s0.bindSettled THEN s0
        ELSE IF err
        THEN [s0 EXCEPT !.bindSettled = TRUE, !.micro = Append(@, BindError)]
        ELSE IF all
        THEN [s0 EXCEPT !.bindSettled = TRUE, !.micro = Append(@, "bound")]
        ELSE s0

\* emit("ready") of a queue: the first n listeners registered.
RECURSIVE emitQueueReady(_, _, _)
emitQueueReady(q, n, s) ==
    IF n = 0 \/ s.thrown THEN s
    ELSE LET l  == Head(s.qReadyL[q])
             s1 == [s EXCEPT !.qReadyL[q] = Tail(@)]
             s2 == CASE l = "consume" ->
                           IF ~s1.qChan[q] THEN NullOp(s1)
                           ELSE [s1 EXCEPT !.qConsume[q] = "pending"]
                      [] l = "isReady" -> isReady(s1)
                      [] l = "bind" -> bindKeys(s1)
         IN  emitQueueReady(q, n - 1, s2)

\* The createChannel callback of Queue.connect.
queueOnChannel(s, q, err) ==
    IF err THEN queueBail(s, q, BrokerError)
    ELSE [s EXCEPT !.qChan[q] = TRUE, !.bchan[q] = "open",
                   !.qLog[q] = @ \o << "channel", "prefetch", "connected",
                                       "assertQueue" >>,
                   !.qDeclare[q] = "pending"]

\* Faulty variant of the assertQueue callback: the name the broker returned
\* is not taken.
queueOnQueueNoName(s, q, err) ==
    IF err THEN queueBail([s EXCEPT !.qDeclare[q] = "failed"], q, BrokerError)
    ELSE LET s1 == [s EXCEPT !.qDeclare[q] = "done",
                             !.qLog[q] = Append(@, "ready"),
                             !.qEmitted[q].ready = @ + 1]
         IN  emitQueueReady(q, Len(s1.qReadyL[q]), s1)

\* The assertQueue callback of Queue.connect.
queueOnQueue(s, q, err) ==
    IF err THEN queueBail([s EXCEPT !.qDeclare[q] = "failed"], q, BrokerError)
    ELSE LET s1 == [s EXCEPT !.qDeclare[q] = "done", !.qName[q] = TRUE,
                             !.qLog[q] = Append(@, "ready"),
                             !.qEmitted[q].ready = @ + 1]
         IN  emitQueueReady(q, Len(s1.qReadyL[q]), s1)

\* Queue.onConsume(err, info).
queueOnConsume(s, q, err) ==
    IF err THEN queueBail([s EXCEPT !.qConsume[q] = "failed"], q, BrokerError)
    ELSE [s EXCEPT !.qConsume[q] = "ok", !.qTag[q] = TRUE,
                   !.qEmitted[q].consuming = @ + 1]

\* Faulty variant of onReply: the callback is not looked up by the message's
\* correlation id; the oldest pending callback is taken.
onReplyAny(s, data, msg) ==
    IF s.pendingReplies = {} THEN s
    ELSE LET e == CHOOSE x \in s.pendingReplies :
                      \A y \in s.pendingReplies : x.corr <= y.corr
         IN  [s EXCEPT !.replyCalls =
                  Append(@, [cb |-> e.cb, corr |-> msg.corr, data |-> data])]

\* Exchange.onReply(data, ack, nack, msg).
onReply(s, data, msg) ==
    LET hit == {e \in s.pendingReplies : e.corr = msg.corr}
    IN  IF hit = {} THEN s
        ELSE LET e == CHOOSE x \in hit : TRUE
             IN  [s EXCEPT !.replyCalls =
                      Append(@, [cb |-> e.cb, corr |-> msg.corr, data |-> data])]

\* Queue.parseMessage with content type application/json.
parseMessage(msg) == parse(msg.body)

\* onMessage of Queue.consume: decode, drop what decodes to a falsy value,
\* hand the rest to the callback given to consume().
queueOnMessage(s, q, msg) ==
    LET data == parseMessage(msg)
        s1   == IF q = "uq" THEN [s EXCEPT !.uqDecoded = Append(@, msg.m)] ELSE s
    IN  IF data = SyntaxError
        THEN Throw([s EXCEPT !.malformedDelivered = @ + 1])
        ELSE IF ~Truthy(data) THEN s1
        ELSE IF q = "rq" THEN onReply(s1, data, msg)
        ELSE [s1 EXCEPT !.uqHeld = Append(@, msg), !.uqGot = Append(@, msg.m)]

\* Queue.encodeMessage with content type application/json: Buffer.from of
\* JSON.stringify, which throws when the value has no JSON text.
queueEncodeMessage(v) == stringify(v)

\* ack(reply) of Queue.consume, for the message the caller holds.
queueAck(s, msg, v) ==
    LET s0 == [s EXCEPT !.acks = @ \cup {[corr |-> msg.corr, data |-> v]},
                        !.ackLog = @ \cup {[replyTo |-> msg.replyTo,
                                            correlationId |-> msg.corr, v |-> v,
                                            channel |-> s.qChan["uq"],
                                            replied |-> /\ msg.replyTo /\ msg.corr # 0
                                                        /\ queueEncodeMessage(v) # NoText
                                                        /\ s.qChan["uq"],
                                            acked |-> /\ s.qChan["uq"]
                                                      /\ (msg.replyTo /\ msg.corr # 0) =>
                                                             queueEncodeMessage(v) # NoText]}]
        s1 == IF msg.replyTo /\ msg.corr # 0
              THEN IF queueEncodeMessage(v) = NoText THEN Throw(s0)
                   ELSE IF ~s0.qChan["uq"] THEN NullOp(s0)
                   ELSE [s0 EXCEPT !.rqInbox =
                            Append(@, [corr |-> msg.corr,
                                       body |-> queueEncodeMessage(v)])]
              ELSE s0
    IN  IF s1.thrown THEN s1
        ELSE IF ~s1.qChan["uq"] THEN NullOp(s1)
        ELSE [s1 EXCEPT !.uqHeld = Tail(@), !.uqUnacked = @ - 1]

\* Faulty variant of cancel: the request is issued whether or not a consumer
\* tag is tracked.
queueCancelNoGuard(s) ==
    IF ~s.qChan["uq"] THEN s
    ELSE [s EXCEPT !.cancelReqs = Append(@, s.qTag["uq"])]

\* Queue.cancel(done): nothing without a consumer tag or without a channel,
\* else channel.cancel of the tracked tag.
queueCancel(s) ==
    IF ~s.qTag["uq"] THEN s
    ELSE IF ~s.qChan["uq"] THEN s
    ELSE [s EXCEPT !.cancelReqs = Append(@, s.qTag["uq"])]

\* channel.cancel completes: with ok the broker has removed the consumer the
\* request's tag names, and done is called back either way.
onCancel(s, tag, err) ==
    IF err THEN s
    ELSE [s EXCEPT !.uqCancelled = @ \/ tag,
                   !.cancelOks = @ + 1,
                   !.cancelledAt = IF @ = -1 THEN Len(s.sent) ELSE @]

\* Faulty variant of purge: the request is issued whether or not the queue
\* has a channel.
queuePurgeNoGuard(s) ==
    [s EXCEPT !.purgeReqs = Append(@, [atCall |-> Len(s.uqStore),
                                       ahead |-> Len(s.purgeReqs)])]

\* Queue.purge(done): nothing without a channel or without a name, else
\* channel.purgeQueue of the queue.
queuePurge(s) ==
    IF ~s.qChan["uq"] \/ ~s.qName["uq"] THEN s
    ELSE [s EXCEPT !.purgeReqs = Append(@, [atCall |-> Len(s.uqStore),
                                            ahead |-> Len(s.purgeReqs)])]

\* Faulty variant of the purgeQueue callback: done gets the number of
\* messages left in the queue.
onPurgeCountLeft(s, req, err) ==
    IF err THEN queueBail(s, "uq", BrokerError)
    ELSE [s EXCEPT !.purgeOks = @ + 1,
                   !.uqStore = <<>>,
                   !.purgeLog = Append(@, [atCall |-> req.atCall,
                                           ahead |-> req.ahead,
                                           count |-> 0])]

\* channel.purgeQueue completes: on an error the queue bails and done is not
\* called; else the broker has removed every message of the queue and done
\* gets their number.
onPurge(s, req, err) ==
    IF err THEN queueBail(s, "uq", BrokerError)
    ELSE [s EXCEPT !.purgeOks = @ + 1,
                   !.uqStore = <<>>,
                   !.purgeLog = Append(@, [atCall |-> req.atCall,
                                           ahead |-> req.ahead,
                                           count |-> Len(s.uqStore)])]

\* ------------------------------------------------------------- manager

\* emit("error") of the manager: without a listener of "error" the emitter
\* throws.
emitError(s) ==
    LET s1 == [s EXCEPT !.jackrabbit.emitted.error = @ + 1]
    IN  IF s.jackrabbit.errorL THEN s1 ELSE Throw(s1)

\* emit("connected") of the manager: the once-listener of createExchange
\* attaches the exchange made before the connection.
emitConnected(s) ==
    LET s1 == [s EXCEPT !.jackrabbit.emitted.connected = @ + 1,
                        !.jackrabbit.connectedL = 0]
    IN  IF s.jackrabbit.connectedL > 0 THEN connect(s1) ELSE s1

\* The connection setter of the manager.
setConnection(s) ==
    emitConnected([s EXCEPT !.jackrabbit.connection = TRUE])

\* The callback of amqp.connect in the jackrabbit factory.
onConnection(s, err) ==
    IF err THEN emitError(s) ELSE setConnection(s)

\* Faulty variant of #bail: the connection reference is kept.
managerBailKeep(s) == emitError(s)

\* Jackrabbit.#bail, the listener of the connection's "close".
managerBail(s) ==
    emitError([s EXCEPT !.jackrabbit.connection = FALSE])

\* Faulty variant of the factory: the connect attempt is made before the
\* URL is validated.
jackrabbitConnectFirst(s, url) ==
    LET s1 == [s EXCEPT !.connectAttempts = @ + 1, !.connectReq = "pending",
                        !.argUrl = url]
    IN  IF Empty(url) THEN [s1 EXCEPT !.jackrabbit.made = "invalid"]
        ELSE [s1 EXCEPT !.jackrabbit.made = "made"]

\* The jackrabbit(url) factory: validate the URL, make the manager, connect.
jackrabbitNew(s, url) ==
    IF Empty(url) THEN [s EXCEPT !.jackrabbit.made = "invalid", !.argUrl = url]
    ELSE [s EXCEPT !.jackrabbit.made = "made", !.argUrl = url,
                   !.connectAttempts = @ + 1, !.connectReq = "pending"]

\* Faulty variant of createExchange: the exchange always waits for the
\* manager's "connected".
createExchangeLate(s, name, type) ==
    LET s1 == [newExchange(s, name, type) EXCEPT
                   !.madeWithConn = s.jackrabbit.connection]
    IN  IF s1.exMade = "invalid" THEN s1
        ELSE [s1 EXCEPT !.jackrabbit.connectedL = @ + 1]

\* The function Jackrabbit.createExchange(type) returns, called with a name.
createExchange(s, name, type) ==
    LET s1 == [newExchange(s, name, type) EXCEPT
                   !.madeWithConn = s.jackrabbit.connection]
    IN  IF s1.exMade = "invalid" THEN s1
        ELSE IF s1.jackrabbit.connection THEN connect(s1)
        ELSE [s1 EXCEPT !.jackrabbit.connectedL = @ + 1]

\* Faulty variant of the close callback: "close" is emitted before the
\* completion handler is called.
closeCallbackEmitFirst(s, err) ==
    [s EXCEPT !.jackrabbit.emitted.close = @ + 1,
              !.connAtClose = Append(@, s.jackrabbit.connection),
              !.closeLog = @ \o <<"close", IF err THEN "cb_err" ELSE "cb_ok">>]

\* The callback Jackrabbit.close gives to connection.close: call the
\* completion handler with the error, then emit "close".
closeCallback(s, err) ==
    [s EXCEPT !.jackrabbit.emitted.close = @ + 1,
              !.connAtClose = Append(@, s.jackrabbit.connection),
              !.closeLog = @ \o <<IF err THEN "cb_err" ELSE "cb_ok", "close">>]

\* Jackrabbit.close(callback): nothing without a connection; a connection
\* that is no longer open throws, and the handler gets what it threw.
managerClose(s) ==
    IF ~s.jackrabbit.connection THEN s
    ELSE IF s.bconn # "open"
    THEN [s EXCEPT !.closeLog = Append(@, "cb_thrown")]
    ELSE [s EXCEPT !.closeReqs = @ + 1, !.bconn = "closing"]

\* ---------------------------------------------------------- microtasks

\* The reactions of the #bindKeys promise, run when the turn's code is done.
RECURSIVE drainMicro(_)
drainMicro(s) ==
    IF s.micro = <<>> \/ s.thrown THEN [s EXCEPT !.micro = <<>>]
    ELSE LET t  == Head(s.micro)
             s1 == [s EXCEPT !.micro = Tail(@)]
         IN  drainMicro(IF t = "bound"
                        THEN [s1 EXCEPT !.qEmitted["uq"].bound = @ + 1]
                        ELSE bail([s1 EXCEPT !.bindBails = @ + 1], t))

\* One turn: its code, then its microtasks.
Turn(s) == Commit(drainMicro(s))

\* ---------------------------------------------------------------- Init

InitState ==
    /\ noReply \in BOOLEAN
    /\ argUrl = Undefined
    /\ newError = NoError
    /\ nConnects = 0
    /\ madeWithConn = FALSE
    /\ jackrabbit = [made |-> "none", connection |-> FALSE, connectedL |-> 0,
                     errorL |-> FALSE,
                     emitted |-> [connected |-> 0, error |-> 0, close |-> 0]]
    /\ connectReq = "none"
    /\ connectAttempts = 0
    /\ bconn = "none"
    /\ closeReqs = 0
    /\ closeCalls = 0
    /\ closeLog = <<>>
    /\ connAtClose = <<>>
    /\ exReady = FALSE /\ exConn = FALSE /\ exChan = FALSE
    /\ publishing = 0
    /\ pendingReplies = {}
    /\ nextCorr = 0
    /\ userConsume = FALSE
    /\ uqStore = <<>>
    /\ uqHeld = <<>>
    /\ uqUnacked = 0
    /\ cancelCalls = 0
    /\ cancelReqs = <<>>
    /\ cancelOks = 0
    /\ uqCancelled = FALSE
    /\ cancelledAt = -1
    /\ rqInbox = <<>>
    /\ strays = 0
    /\ acks = {}
    /\ sentOpts = <<>>
    /\ qLog = [q \in Queues |-> <<>>]
    /\ qCloseErr = [q \in Queues |-> NoError]
    /\ malformed = 0
    /\ malformedDelivered = 0
    /\ purgeAt = <<>>
    /\ purgeReqs = <<>>
    /\ purgeOks = 0
    /\ purgeLog = <<>>
    /\ exCloseErr = NoError
    /\ qConnects = [q \in Queues |-> 0]
    /\ uqMadeAt = "none"
    /\ nullOps = 0
    /\ bindBails = 0
    /\ uqOptions = NoKey
    /\ uqDecoded = <<>>
    /\ uqGot = <<>>
    /\ ackLog = {}
    /\ replyCalls = <<>>
    /\ exReadyL = <<>>
    /\ qChan = [q \in Queues |-> FALSE]
    /\ qName = [q \in Queues |-> FALSE]
    /\ qTag = [q \in Queues |-> FALSE]
    /\ qReadyL = [q \in Queues |-> <<>>]
    /\ openReqs = <<>>
    /\ bchan = [o \in Owners |-> "none"]
    /\ exDeclare = "none"
    /\ qDeclare = [q \in Queues |-> "none"]
    /\ qConsume = [q \in Queues |-> "none"]
    /\ uqKeys = -1
    /\ bindSt = [k \in 1..MaxKeys |-> "none"]
    /\ bindSettled = FALSE
    /\ bindOrder = <<>>
    /\ immediates = 0
    /\ saturated = FALSE
    /\ everSaturated = FALSE
    /\ bursts = 0
    /\ failures = 0
    /\ connected = FALSE
    /\ userL = FALSE
    /\ nCalls = 0
    /\ nAtReady = -1
    /\ sent = <<>>
    /\ sendsAtDrain = <<>>
    /\ emitted = [ready |-> 0, close |-> 0, drain |-> 0, connected |-> 0]
    /\ qEmitted = [q \in Queues |->
                      [ready |-> 0, close |-> 0, bound |-> 0, consuming |-> 0,
                       error |-> 0]]
    /\ thrown = FALSE

\* An exchange of type direct has been constructed, with no name, with the
\* empty name or with a name of its own, and waits for its connection.
InitNames == {Undefined, "", "foobar"}
Init ==
    /\ InitState
    /\ exMade = "made" /\ exType = "direct" /\ argType = "direct"
    /\ argName \in InitNames
    /\ exName = resolveName(argName, "direct").name

\* Nothing has been constructed yet, neither manager nor exchange.
InitManager ==
    /\ InitState
    /\ exMade = "none" /\ exType = Undefined /\ argType = Undefined
    /\ argName = Undefined /\ exName = Undefined

\* ------------------------------------------------------------- actions
\* Each action is one turn. j is how many sends the exchange channel's write
\* buffer takes in that turn before channel.publish starts to return false.

WithBuffer(s, j) == [s EXCEPT !.okSends = j]
Fail(s, err) == [s EXCEPT !.failures = IF err THEN @ + 1 ELSE @]
CanFail == failures < MaxFailures

\* Calls still open to the caller: the "ready" listener it registered will
\* make one when it runs.
CallsLeft == MaxPublish - nCalls - (IF userL /\ emitted.ready = 0 THEN 1 ELSE 0)

\* Exchange.connect(con), called once by the connection manager.
Connect ==
    /\ ~thrown /\ exMade = "made" /\ ~connected
    /\ Turn(connect(Cur))

\* The caller registers its own "ready" listener, which publishes.
UserOnReady ==
    /\ ~thrown /\ ~userL /\ emitted.ready = 0 /\ CallsLeft > 0
    /\ Turn([Cur EXCEPT !.userL = TRUE,
                        !.exReadyL = Append(@, [k |-> "user", m |-> 0,
                                                reply |-> FALSE, v |-> "text"])])

\* The caller makes n publish() calls in one turn.
Publish(n, reply, v, j) ==
    /\ ~thrown /\ n <= CallsLeft
    /\ Turn(publishBurst(n, WithBuffer([Cur EXCEPT !.bursts = @ + 1], j), reply, v))

\* exchange.queue(options): Exchange.#createQueue.
CreateQueue(options) ==
    /\ ~thrown /\ exMade = "made" /\ uqKeys = -1
    /\ Turn(createQueue(Cur, options))

\* exchange.queue(options), with what the exchange was at the call recorded.
CreateQueueAt(options) ==
    /\ ~thrown /\ exMade = "made" /\ uqKeys = -1
    /\ Turn(createQueue([Cur EXCEPT !.uqMadeAt =
                             IF emitted.close > 0 THEN "closed"
                             ELSE IF connected THEN "connected"
                             ELSE "unconnected"],
                        options))

\* uq.consume(callback): Queue.consume defers to the queue's "ready".
UserConsume ==
    /\ ~thrown /\ uqKeys # -1 /\ ~userConsume
    /\ Turn(queueConsume([Cur EXCEPT !.userConsume = TRUE], "uq"))

\* The oldest createChannel request completes.
ChannelOpened(err, j) ==
    /\ ~thrown /\ openReqs # <<>>
    /\ IF err THEN CanFail \/ bconn = "closed" ELSE bconn # "closed"
    /\ LET o  == Head(openReqs)
           s0 == Fail([WithBuffer(Cur, j) EXCEPT !.openReqs = Tail(@)],
                      err /\ bconn # "closed")
       IN  Turn(IF o = "ex" THEN onChannel(s0, err)
                ELSE queueOnChannel(s0, o, err))

\* assertExchange completes; on a closed channel only with an error.
ExchangeDeclared(err, j) ==
    /\ ~thrown /\ exDeclare = "pending"
    /\ IF err THEN CanFail \/ bchan["ex"] = "closed" ELSE bchan["ex"] = "open"
    /\ LET s0 == Fail([WithBuffer(Cur, j) EXCEPT
                          !.exDeclare = IF err THEN "failed" ELSE "done"],
                      err /\ bchan["ex"] = "open")
       IN  Turn(onExchange(s0, err))

\* assertQueue completes.
QueueDeclared(q, err, j) ==
    /\ ~thrown /\ qDeclare[q] = "pending"
    /\ IF err THEN CanFail \/ bchan[q] = "closed" ELSE bchan[q] = "open"
    /\ Turn(queueOnQueue(Fail(WithBuffer(Cur, j), err /\ bchan[q] = "open"),
                         q, err))

\* channel.consume completes.
ConsumeDone(q, err) ==
    /\ ~thrown /\ qConsume[q] = "pending"
    /\ IF err THEN CanFail \/ bchan[q] = "closed" ELSE bchan[q] = "open"
    /\ Turn(queueOnConsume(Fail(Cur, err /\ bchan[q] = "open"), q, err))

\* bindQueue for key k completes.
BindDone(k, err) ==
    /\ ~thrown /\ bindSt[k] = "pending"
    /\ IF err THEN CanFail \/ bchan["ex"] = "closed" ELSE bchan["ex"] = "open"
    /\ Turn(onBind(Fail(Cur, err /\ bchan["ex"] = "open"), k, err))

\* An open channel closes: its "close" listener is the owner's bail.
ChannelClosed(o) ==
    /\ ~thrown /\ bchan[o] = "open" /\ CanFail
    /\ LET s0 == Fail([Cur EXCEPT !.bchan[o] = "closed"], TRUE)
       IN  Turn(IF o = "ex" THEN bail(s0, ChannelClosedError)
                ELSE queueBail(s0, o, ChannelClosedError))

\* A setImmediate callback of onDrain runs.
Immediate ==
    /\ ~thrown /\ immediates > 0
    /\ Turn(onDrainCallback([Cur EXCEPT !.immediates = @ - 1]))

\* The exchange channel's write buffer empties: the channel emits "drain".
ChannelDrain ==
    /\ ~thrown /\ saturated /\ bchan["ex"] = "open"
    /\ Turn(onDrain([Cur EXCEPT !.saturated = FALSE]))

\* The broker delivers the oldest message of uq to its consumer; with the
\* default prefetch of 1 only while no delivered message is unacknowledged.
Deliver ==
    /\ ~thrown /\ qConsume["uq"] = "ok" /\ bchan["uq"] = "open"
    /\ ~uqCancelled
    /\ uqStore # <<>> /\ uqUnacked < Prefetch
    /\ Turn(queueOnMessage([Cur EXCEPT !.uqStore = Tail(@), !.uqUnacked = @ + 1],
                           "uq", Head(uqStore)))

\* The caller's consume callback calls ack(v) for the message it holds.
Ack(v) ==
    /\ ~thrown /\ uqHeld # <<>>
    /\ Turn(queueAck(Cur, Head(uqHeld), v))

\* The caller calls uq.cancel(done).
Cancel ==
    /\ ~thrown /\ uqKeys # -1 /\ cancelCalls < MaxCancels
    /\ Turn(queueCancel([Cur EXCEPT !.cancelCalls = @ + 1]))

\* The oldest channel.cancel request completes.
CancelDone(err) ==
    /\ ~thrown /\ cancelReqs # <<>>
    /\ IF err THEN CanFail \/ bchan["uq"] = "closed" ELSE bchan["uq"] = "open"
    /\ Turn(onCancel(Fail([Cur EXCEPT !.cancelReqs = Tail(@)],
                           err /\ bchan["uq"] = "open"),
                      Head(cancelReqs), err))

\* The caller calls uq.purge(done).
Purge ==
    /\ ~thrown /\ uqKeys # -1 /\ Len(purgeAt) < MaxPurges
    /\ Turn(queuePurge([Cur EXCEPT !.purgeAt = Append(@, qChan["uq"])]))

\* The oldest channel.purgeQueue request completes.
PurgeDone(err) ==
    /\ ~thrown /\ purgeReqs # <<>>
    /\ IF err THEN CanFail \/ bchan["uq"] = "closed" ELSE bchan["uq"] = "open"
    /\ Turn(onPurge(Fail([Cur EXCEPT !.purgeReqs = Tail(@)],
                          err /\ bchan["uq"] = "open"),
                     Head(purgeReqs), err))

\* jackrabbit(url).
Jackrabbit(url) ==
    /\ ~thrown /\ jackrabbit.made = "none"
    /\ Turn(jackrabbitNew(Cur, url))

\* The caller registers a listener of the manager's "error".
OnError ==
    /\ ~thrown /\ jackrabbit.made = "made" /\ ~jackrabbit.errorL
    /\ Turn([Cur EXCEPT !.jackrabbit.errorL = TRUE])

\* amqp.connect completes.
ConnectDone(err) ==
    /\ ~thrown /\ connectReq = "pending"
    /\ Turn(onConnection([Cur EXCEPT
                              !.connectReq = IF err THEN "failed" ELSE "ok",
                              !.bconn = IF err THEN @ ELSE "open"], err))

\* manager.createExchange(type)(name): one of the factories direct, fanout,
\* topic and default, or createExchange with a type of the caller's.
CreateExchange(name, type) ==
    /\ ~thrown /\ jackrabbit.made = "made" /\ exMade = "none"
    /\ Turn(createExchange(Cur, name, type))

\* manager.close(callback).
Close ==
    /\ ~thrown /\ jackrabbit.made = "made" /\ closeCalls < MaxCloses
    /\ Turn(managerClose([Cur EXCEPT !.closeCalls = @ + 1]))

\* connection.close completes. Without an error the connection is closed,
\* and emits "close" once the callback has returned; with an error it stays
\* open.
CloseDone(err) ==
    /\ ~thrown /\ closeReqs > 0 /\ bconn = "closing"
    /\ LET s1 == closeCallback([Cur EXCEPT !.closeReqs = @ - 1], err)
       IN  Turn(IF err THEN [s1 EXCEPT !.bconn = "open"]
                ELSE managerBail([s1 EXCEPT !.bconn = "closed"]))

\* The broker drops the connection: the connection emits "close".
ConnectionLost ==
    /\ ~thrown /\ bconn \in {"open", "closing"}
    /\ Turn(managerBail([Cur EXCEPT !.bconn = "closed"]))

\* Another publisher puts a message of content type application/json whose
\* body is not JSON into uq.
PublishMalformed ==
    /\ ~thrown /\ qDeclare["uq"] = "done" /\ malformed < MaxMalformed
    /\ Turn([Cur EXCEPT !.malformed = @ + 1,
                        !.uqStore = Append(@, [m |-> 0, corr |-> 0,
                                               replyTo |-> FALSE, reply |-> FALSE,
                                               body |-> "{"])])

\* The broker delivers the oldest message of the reply queue (noAck).
DeliverReply ==
    /\ ~thrown /\ qConsume["rq"] = "ok" /\ bchan["rq"] = "open"
    /\ rqInbox # <<>>
    /\ Turn(queueOnMessage([Cur EXCEPT !.rqInbox = Tail(@)], "rq", Head(rqInbox)))

\* Another publisher sends a message to the reply queue by its name, with a
\* correlation id this exchange never generated (0), and the broker delivers
\* it to the reply queue's consumer.
StrayReply ==
    /\ ~thrown /\ qConsume["rq"] = "ok" /\ bchan["rq"] = "open"
    /\ strays < MaxStrays
    /\ Turn(queueOnMessage([Cur EXCEPT !.strays = @ + 1], "rq",
                           [corr |-> 0, body |-> "\"text\""]))

\* ------------------------------------------------------ specifications

PublishValues == {"text"}
AckValues == {"undefined", "zero", "text"}
Buffer == 0..MaxPublish

\* The callbacks of the AMQP client that carry the exchange and its queues
\* from connect to ready; each request fails or not as E allows, and the
\* write buffer takes what J allows.
Callbacks(J, E) ==
    \/ \E err \in E, j \in J : ChannelOpened(err, j)
    \/ \E err \in E, j \in J : ExchangeDeclared(err, j)
    \/ \E q \in Queues, err \in E, j \in J : QueueDeclared(q, err, j)
    \/ \E q \in Queues, err \in E : ConsumeDone(q, err)

\* Readiness and publishing: the caller connects, publishes one message a
\* turn, listens to "ready" and creates a queue; the write buffer never fills.
Next ==
    \/ Connect
    \/ UserOnReady
    \/ \E v \in PublishValues : Publish(1, FALSE, v, MaxPublish)
    \/ \E options \in QueueOptions : CreateQueue(options)
    \/ \E k \in 1..MaxKeys, err \in BOOLEAN : BindDone(k, err)
    \/ Callbacks({MaxPublish}, BOOLEAN)
    \/ \E o \in Owners : ChannelClosed(o)
    \/ Immediate

Spec == Init /\ [][Next]_vars

\* Draining: the caller publishes bursts of messages in one turn, and the
\* exchange channel's write buffer may fill at any send.
NextDrain ==
    \/ Connect
    \/ \E n \in 1..MaxPublish, j \in Buffer : Publish(n, FALSE, "text", j)
    \/ Callbacks(Buffer, BOOLEAN)
    \/ \E o \in Owners : ChannelClosed(o)
    \/ Immediate
    \/ ChannelDrain

SpecDrain == Init /\ [][NextDrain]_vars

\* Request and reply: the caller publishes requests, binds a queue by one
\* key, consumes the requests from it and acks each with a reply. Requests
\* to the broker succeed or stay unanswered; any channel may close.
NextReply ==
    \/ Connect
    \/ \E reply \in BOOLEAN : Publish(1, reply, "text", MaxPublish)
    \/ CreateQueue(OneKey)
    \/ UserConsume
    \/ \E k \in 1..MaxKeys : BindDone(k, FALSE)
    \/ Callbacks({MaxPublish}, {FALSE})
    \/ \E o \in Owners : ChannelClosed(o)
    \/ Deliver
    \/ \E v \in AckValues : Ack(v)
    \/ DeliverReply
    \/ StrayReply

SpecReply == Init /\ [][NextReply]_vars

\* Cancelling: the caller binds a queue by one key, consumes from it,
\* publishes to it and cancels the consumer, at any moment and more than once.
NextCancel ==
    \/ Connect
    \/ Publish(1, FALSE, "text", MaxPublish)
    \/ CreateQueue(OneKey)
    \/ UserConsume
    \/ \E k \in 1..MaxKeys : BindDone(k, FALSE)
    \/ Callbacks({MaxPublish}, {FALSE})
    \/ \E o \in Owners : ChannelClosed(o)
    \/ Deliver
    \/ Ack("text")
    \/ Cancel
    \/ \E err \in BOOLEAN : CancelDone(err)

SpecCancel == Init /\ [][NextCancel]_vars

\* The connection manager: the caller makes the manager and, before or
\* after the connection is there, an exchange of any name and type; it
\* closes the manager; the broker may drop the connection.
NextManager ==
    \/ \E url \in Urls : Jackrabbit(url)
    \/ OnError
    \/ \E err \in BOOLEAN : ConnectDone(err)
    \/ \E name \in Names, type \in Types : CreateExchange(name, type)
    \/ Close
    \/ \E err \in BOOLEAN : CloseDone(err)
    \/ ConnectionLost
    \/ Callbacks({MaxPublish}, BOOLEAN)
    \/ \E o \in Owners : ChannelClosed(o)

SpecManager == InitManager /\ [][NextManager]_vars

\* Consuming: the caller binds a queue by one key and consumes from it with
\* acknowledgments; requests to the broker may fail and channels may close;
\* messages come from the exchange and, malformed, from other publishers.
NextConsume ==
    \/ Connect
    \/ Publish(1, FALSE, "text", MaxPublish)
    \/ CreateQueue(OneKey)
    \/ UserConsume
    \/ \E k \in 1..MaxKeys : BindDone(k, FALSE)
    \/ Callbacks({MaxPublish}, BOOLEAN)
    \/ \E o \in Owners : ChannelClosed(o)
    \/ PublishMalformed
    \/ Deliver
    \/ Ack("text")

SpecConsume == Init /\ [][NextConsume]_vars

\* Values of any kind: the caller binds a queue by one key, consumes from
\* it with acknowledgments and publishes values, truthy and falsy, to it;
\* every request to the broker succeeds.
ConsumeValues == {"text", "zero", "false", "null", "empty"}

NextValues ==
    \/ Connect
    \/ \E v \in ConsumeValues : Publish(1, FALSE, v, MaxPublish)
    \/ CreateQueue(OneKey)
    \/ UserConsume
    \/ \E k \in 1..MaxKeys : BindDone(k, FALSE)
    \/ Callbacks({MaxPublish}, {FALSE})
    \/ Deliver
    \/ Ack("text")

SpecValues == Init /\ [][NextValues]_vars

\* Purging: the caller binds a queue by one key, publishes to it and, with
\* no consumer on the queue, purges it, at any moment and more than once.
NextPurge ==
    \/ Connect
    \/ Publish(1, FALSE, "text", MaxPublish)
    \/ CreateQueue(OneKey)
    \/ \E k \in 1..MaxKeys : BindDone(k, FALSE)
    \/ Callbacks({MaxPublish}, {FALSE})
    \/ \E o \in Owners : ChannelClosed(o)
    \/ Purge
    \/ \E err \in BOOLEAN : PurgeDone(err)

SpecPurge == Init /\ [][NextPurge]_vars

\* Creating a queue: the caller calls queue(), with no key, one key or
\* several, before or after the exchange is connected, or after it has
\* closed; requests to the broker may fail and channels may close.
NextQueue ==
    \/ Connect
    \/ \E options \in QueueOptions : CreateQueueAt(options)
    \/ \E k \in 1..MaxKeys, err \in BOOLEAN : BindDone(k, err)
    \/ Callbacks({MaxPublish}, BOOLEAN)
    \/ \E o \in Owners : ChannelClosed(o)

SpecQueue == Init /\ [][NextQueue]_vars

\* -------------------------------------------------------------- claims

SentSet == {sent[i] : i \in DOMAIN sent}

\* C1: every publish() made before "ready" is sent exactly once on the
\* exchange's channel, after "ready" is emitted and never before: nothing is
\* sent while "ready" has not been emitted, no message is sent twice, and
\* once "ready" has been emitted every earlier call has been sent.
C1_BufferedPublishesSentOnce ==
    /\ emitted.ready = 0 => sent = <<>>
    /\ \A i, j \in DOMAIN sent : i # j => sent[i] # sent[j]
    /\ nAtReady >= 0 => \A m \in 1..nAtReady : m \in SentSet

\* C2: sends reach the channel in the order of the publish() calls: call i
\* is message i, so the messages sent are in increasing order.
C2_SendsInCallOrder ==
    \A i, j \in DOMAIN sent : i < j => sent[i] < sent[j]

\* C3: the exchange is ready, and has emitted "ready", only after its channel
\* opened, its assertExchange (when one is issued) succeeded, and, when it
\* owns a reply queue, that queue emitted "ready" with its own channel opened
\* and its assertQueue done.
C3_ReadyOnlyAfterJoin ==
    (exReady \/ emitted.ready > 0) =>
        /\ emitted.connected > 0 /\ bchan["ex"] # "none"
        /\ exDeclare = (IF exKind = "named" THEN "done" ELSE "skipped")
        /\ ~noReply => /\ qEmitted["rq"].ready > 0
                       /\ bchan["rq"] # "none"
                       /\ qDeclare["rq"] = "done"

C3_Witness ==
    /\ exReady /\ emitted.ready = 1 /\ ~noReply /\ exKind = "named"
    /\ qEmitted["rq"].ready = 1

\* C4: a reply callback is invoked only for a message whose correlation id
\* the exchange generated, it is the callback of the publish that generated
\* that id, and it receives what the consumer acked for that id; a message
\* with an unknown correlation id invokes no callback and throws nothing.
C4_RepliesGoToTheirPublisher ==
    /\ [](\A i \in DOMAIN replyCalls :
            /\ replyCalls[i].corr # 0
            /\ [corr |-> replyCalls[i].corr, cb |-> replyCalls[i].cb] \in pendingReplies
            /\ [corr |-> replyCalls[i].corr, data |-> replyCalls[i].data] \in acks)
    /\ [](\A e, f \in pendingReplies : (e.corr = f.corr) <=> (e.cb = f.cb))
    /\ [][strays' > strays => replyCalls' = replyCalls /\ ~thrown']_vars

C4_Witness ==
    /\ Cardinality(pendingReplies) >= 2 /\ strays = 1
    /\ Len(replyCalls) = 1 /\ replyCalls[1].cb = 2

\* C5: when the consumer of a request calls ack(payload), the publisher's
\* reply callback is invoked with that payload: once every reply has been
\* delivered from the reply queue, each acked request has had its callback
\* invoked with the payload acked.
C5_AckedPayloadReachesCallback ==
    (~thrown /\ rqInbox = <<>>) =>
        \A a \in acks : a.corr # 0 =>
            \E i \in DOMAIN replyCalls :
                replyCalls[i].corr = a.corr /\ replyCalls[i].data = a.data

\* C6: on a non-nameless exchange, queue() with K keys emits "bound" on the
\* queue at most once, only when every one of the K bindQueue requests has
\* succeeded, and as soon as the last of them has.
C6_BoundOnceAfterAllKeys ==
    /\ qEmitted["uq"].bound <= 1
    /\ qEmitted["uq"].bound = 1 =>
           /\ ~isNameless /\ uqKeys >= 0
           /\ \A k \in 1..MaxKeys : bindSt[k] = (IF k <= uqKeys THEN "ok" ELSE "none")
    /\ (uqKeys >= 1 /\ \A k \in 1..uqKeys : bindSt[k] = "ok") =>
           qEmitted["uq"].bound = 1

C6_Witness ==
    /\ uqKeys = MaxKeys /\ qEmitted["uq"].bound = 1
    /\ Len(bindOrder) = MaxKeys /\ bindOrder[1] = MaxKeys

\* C7: "drain" is emitted only by a step that brings the in-flight counter
\* from one to zero, no step that sends decrements the counter, and a single
\* burst of N publish() calls in one turn on a ready exchange whose sends all
\* find the write buffer unsaturated gives no "drain" while a decrement is
\* outstanding and exactly one, after all N sends, when none is.
C7_OneDrainPerBurst ==
    /\ [][emitted'.drain # emitted.drain =>
             /\ emitted'.drain = emitted.drain + 1
             /\ publishing = 1 /\ publishing' = 0
             /\ sent' = sent]_vars
    /\ [][sent' # sent => publishing' >= publishing]_vars
    /\ []((bursts = 1 /\ nAtReady = 0 /\ ~everSaturated /\ Len(sent) = nCalls) =>
              IF immediates = 0
              THEN emitted.drain = 1 /\ sendsAtDrain = << nCalls >>
              ELSE emitted.drain = 0 /\ publishing = immediates)

C7_Witness ==
    /\ bursts = 1 /\ nAtReady = 0 /\ ~everSaturated
    /\ nCalls = MaxPublish /\ Len(sent) = MaxPublish
    /\ immediates = 0 /\ emitted.drain = 1

\* C8: on an exchange that stays open, once the channel has flushed every
\* send (every call is sent, the write buffer is not full, no decrement is
\* outstanding), the in-flight counter is zero and "drain" has been emitted
\* after the last send.
C8_DrainAfterEveryBurst ==
    (/\ ~thrown /\ emitted.close = 0 /\ exReady
     /\ nCalls > 0 /\ Len(sent) = nCalls
     /\ ~saturated /\ immediates = 0) =>
        /\ publishing = 0
        /\ sendsAtDrain # <<>>
        /\ sendsAtDrain[Len(sendsAtDrain)] = Len(sent)

\* C9: once the exchange has emitted "close" it never again emits "ready",
\* sets its readiness flag, regains a channel or connection reference, or
\* sends a publish.
C9_ClosedIsTerminal ==
    [][emitted.close > 0 =>
          /\ emitted'.ready = emitted.ready
          /\ exReady' => exReady
          /\ exChan' => exChan
          /\ exConn' => exConn
          /\ sent' = sent]_vars

\* C10: after the exchange's teardown (it has emitted "close") the exchange
\* is not ready.
C10_TeardownClearsReady ==
    emitted.close > 0 => ~exReady

\* C11: a channel-level failure of one object changes only that object: a
\* step in which a queue emits "close" leaves the exchange's connection and
\* channel references and its "close" count as they were, and leaves the
\* other queue untouched; a step in which only the exchange emits "close"
\* leaves both queues untouched.
C11_FailureStaysLocal ==
    [][/\ \A q \in Queues :
             qEmitted'[q].close > qEmitted[q].close =>
                 /\ exConn' = exConn /\ exChan' = exChan
                 /\ emitted'.close = emitted.close
                 /\ \A r \in Queues \ {q} :
                        /\ qChan'[r] = qChan[r] /\ qName'[r] = qName[r]
                        /\ qEmitted'[r].close = qEmitted[r].close
       /\ (emitted'.close > emitted.close
           /\ \A q \in Queues : qEmitted'[q].close = qEmitted[q].close) =>
              /\ qChan' = qChan /\ qName' = qName /\ qTag' = qTag]_vars

\* The broker has a consumer for uq that the queue has been told of.
ActiveConsumer ==
    qConsume["uq"] = "ok" /\ bchan["uq"] = "open" /\ ~uqCancelled

\* C12: cancel() on a queue with no active consumer (never consumed, consume
\* not yet confirmed, consumer already cancelled) issues no cancel request to
\* the channel and leaves the queue's state unchanged.
C12_CancelWithoutConsumerIsNoOp ==
    [][(cancelCalls' > cancelCalls /\ ~ActiveConsumer) =>
          /\ cancelReqs' = cancelReqs
          /\ qChan' = qChan /\ qName' = qName /\ qTag' = qTag
          /\ qConsume' = qConsume /\ qEmitted' = qEmitted]_vars

\* C13: once a cancel has completed with ok, a message handed to the
\* consume callback is one that was published before the cancel completed.
C13_NoDeliveryAfterCancel ==
    [][(cancelledAt >= 0 /\ Len(uqHeld') > Len(uqHeld)) =>
          \E i \in 1..cancelledAt : sent[i] = uqHeld'[Len(uqHeld')].m]_vars

C13_Witness ==
    /\ cancelOks = 1 /\ cancelledAt >= 1 /\ Len(sent) > cancelledAt
    /\ Len(uqStore) > 0 /\ uqUnacked = 0 /\ bchan["uq"] = "open"
    /\ qConsume["uq"] = "ok"

\* C14: close() on a connected manager gives one "close" notification of
\* the manager per call at most, and once "close" has been emitted the
\* manager's connection reference is cleared: a listener of "close" finds it
\* cleared, and it is cleared when the turn is over.
C14_CloseClearsConnection ==
    /\ jackrabbit.emitted.close <= closeCalls
    /\ \A i \in DOMAIN connAtClose : ~connAtClose[i]
    /\ jackrabbit.emitted.close > 0 => ~jackrabbit.connection

C16_AttachedOnce ==
    /\ [](/\ nConnects <= 1 /\ emitted.connected <= 1
          /\ emitted.connected = 1 <=> bchan["ex"] # "none"
          /\ emitted.connected = 1 => nConnects = 1)
    /\ [][(exMade = "none" /\ exMade' = "made") =>
             nConnects' = IF jackrabbit.connection THEN 1 ELSE 0]_vars
    /\ [][(exMade = "made" /\ nConnects' # nConnects) =>
             /\ nConnects = 0 /\ nConnects' = 1 /\ ~madeWithConn
             /\ jackrabbit'.emitted.connected = jackrabbit.emitted.connected + 1]_vars
    /\ [][(exMade = "made" /\ ~madeWithConn
           /\ jackrabbit'.emitted.connected > jackrabbit.emitted.connected) =>
             nConnects' = 1]_vars

C16_Witness ==
    /\ exMade = "made" /\ ~madeWithConn /\ nConnects = 1
    /\ jackrabbit.emitted.connected = 1 /\ emitted.connected = 1

\* C17: when the connection is lost the manager clears its connection
\* reference and emits "error"; "connected" is emitted at most once and
\* amqp.connect is called at most once; after the loss no connect attempt is
\* made, "connected" is not emitted and the reference stays cleared.
C17_NoReconnect ==
    /\ [][(bconn # "closed" /\ bconn' = "closed") =>
             /\ ~jackrabbit'.connection
             /\ jackrabbit'.emitted.error = jackrabbit.emitted.error + 1]_vars
    /\ [](jackrabbit.emitted.connected <= 1 /\ connectAttempts <= 1)
    /\ [][bconn = "closed" =>
             /\ connectAttempts' = connectAttempts
             /\ connectReq' = connectReq
             /\ jackrabbit'.emitted.connected = jackrabbit.emitted.connected
             /\ ~jackrabbit'.connection]_vars

C17_Witness ==
    /\ bconn = "closed" /\ closeCalls = 0 /\ ~thrown
    /\ ~jackrabbit.connection
    /\ jackrabbit.emitted = [connected |-> 1, error |-> 1, close |-> 0]

\* C18: for a type direct, fanout or topic the constructor makes an exchange
\* whatever the name: with no name it has the type's default name, with a
\* non-empty name exactly that name; with the empty name it has the empty
\* name whatever the type.
C18_NameResolution ==
    /\ (exMade # "none" /\ isDefaultType(argType)) =>
           /\ exMade = "made" /\ exType = argType
           /\ argName = Undefined => exName = DEFAULT_EXCHANGES[argType]
           /\ ~Empty(argName) => exName = argName
    /\ (exMade # "none" /\ argName = "" /\ ~Empty(argType)) =>
           exMade = "made" /\ exName = ""

C18_Witness ==
    /\ exMade = "made" /\ argName = Undefined /\ argType = "topic"
    /\ exName = "amq.topic"

\* C19: the constructor called with no type, or with no name and a type
\* without a default name, throws a validation error and makes no exchange,
\* and the call issues no connection or channel operation.
C19_InvalidArgumentsThrow ==
    /\ []((/\ exMade # "none"
           /\ \/ Empty(argType)
              \/ argName = Undefined /\ ~isDefaultType(argType)) =>
              /\ exMade = "invalid" /\ exName = Undefined
              /\ newError = IF Empty(argType) THEN "missing exchange type"
                            ELSE "missing exchange name")
    /\ [](exMade = "invalid" =>
              nConnects = 0 /\ openReqs = <<>> /\ ~exConn /\ ~connected)
    /\ [][(exMade = "none" /\ exMade' = "invalid") =>
             /\ jackrabbit' = jackrabbit /\ bconn' = bconn
             /\ openReqs' = openReqs /\ ~thrown']_vars

C19_Witness ==
    /\ exMade = "invalid" /\ newError = "missing exchange name"
    /\ argName = Undefined /\ argType = "headers" /\ jackrabbit.connection

\* C20: jackrabbit() without a URL throws a validation error and makes no
\* manager, and no connect attempt is made, in that call or later.
C20_UrlRequired ==
    /\ [](jackrabbit.made # "none" =>
              (Empty(argUrl) <=> jackrabbit.made = "invalid"))
    /\ [](jackrabbit.made = "invalid" =>
              connectAttempts = 0 /\ connectReq = "none" /\ bconn = "none")

C20_Witness ==
    jackrabbit.made = "invalid" /\ argUrl = ""

\* C24: on an exchange with a reply queue, every send of a publish with a
\* reply callback carries a correlation id no earlier send carried, the
\* callback of that publish is in the pending-reply table under that id,
\* replyTo is the reply queue's (defined) name, and the reply option is not
\* among the options of the send; a send of a publish without a reply
\* callback carries neither.
C24_ReplyPublishIsTagged ==
    \A i \in DOMAIN sentOpts :
        /\ ~sentOpts[i].reply
        /\ sentOpts[i].correlationId # 0 =>
               /\ sentOpts[i].replyTo /\ ~noReply
               /\ [corr |-> sentOpts[i].correlationId, cb |-> sentOpts[i].m]
                      \in pendingReplies
               /\ \A j \in DOMAIN sentOpts :
                      j # i => sentOpts[j].correlationId # sentOpts[i].correlationId
        /\ sentOpts[i].correlationId = 0 =>
               /\ ~sentOpts[i].replyTo
               /\ \A e \in pendingReplies : e.cb # sentOpts[i].m

C24_Witness ==
    /\ Len(sentOpts) = 3
    /\ sentOpts[1].correlationId = 1 /\ sentOpts[2].correlationId = 0
    /\ sentOpts[3].correlationId = 2 /\ sentOpts[3].replyTo

\* C25: a pending reply is one-shot: once the callback of a correlation id
\* has been invoked the id has no entry in the pending-reply table, and no
\* callback is invoked twice.
C25_PendingReplyIsOneShot ==
    /\ \A i \in DOMAIN replyCalls :
           \A e \in pendingReplies : e.corr # replyCalls[i].corr
    /\ \A i, j \in DOMAIN replyCalls :
           i # j => replyCalls[i].cb # replyCalls[j].cb

C22_MalformedIsReported ==
    [][malformedDelivered' > malformedDelivered =>
          /\ qEmitted'["uq"].error = qEmitted["uq"].error + 1
          /\ uqHeld' = uqHeld
          /\ uqUnacked' = uqUnacked + 1
          /\ ~thrown']_vars

\* C23: after a malformed message has been dropped, consumption continues:
\* the process is alive, and the broker's window of unacknowledged messages
\* (prefetch 1) holds only messages the consumer callback has got and can
\* still ack, so that the next message can be delivered.
C23_ConsumptionContinues ==
    malformedDelivered > 0 =>
        /\ ~thrown
        /\ uqUnacked = Len(uqHeld)

QueueSteps == << "channel", "prefetch", "connected", "assertQueue", "ready" >>

\* C27: Queue.connect opens the channel, sets the prefetch count, emits
\* "connected" and declares the queue, in this order; "ready" comes last
\* and only when the declare has succeeded, and when it is emitted the queue
\* has the name the broker returned and its channel.
C27_QueueConnectOrder ==
    /\ [](\A q \in Queues :
            /\ Len(qLog[q]) <= Len(QueueSteps)
            /\ qLog[q] = SubSeq(QueueSteps, 1, Len(qLog[q]))
            /\ qEmitted[q].ready = (IF Len(qLog[q]) = Len(QueueSteps) THEN 1 ELSE 0)
            /\ qEmitted[q].ready = 1 => qDeclare[q] = "done")
    /\ [][\A q \in Queues :
             qEmitted'[q].ready > qEmitted[q].ready =>
                 /\ qDeclare[q] = "pending" /\ qDeclare'[q] = "done"
                 /\ qName'[q] /\ qChan'[q]]_vars

C27_Witness ==
    /\ qLog["uq"] = QueueSteps /\ qName["uq"] /\ qChan["uq"]
    /\ qEmitted["uq"].ready = 1

\* C28: no consume request is issued before the queue has emitted "ready";
\* the consumer tag is set and "consuming" emitted only once the broker has
\* confirmed the consumer; a failed consume request tears the queue down.
C28_ConsumeAfterReady ==
    \A q \in Queues :
        /\ qConsume[q] # "none" => qEmitted[q].ready > 0
        /\ qTag[q] => qConsume[q] = "ok"
        /\ qEmitted[q].consuming = (IF qConsume[q] = "ok" THEN 1 ELSE 0)
        /\ qConsume[q] = "failed" =>
               /\ ~qChan[q] /\ ~qName[q] /\ ~qTag[q]
               /\ qEmitted[q].close > 0

C28_Witness ==
    /\ qConsume["uq"] = "ok" /\ qTag["uq"] /\ qEmitted["uq"].consuming = 1
    /\ qConsume["rq"] = "failed" /\ qEmitted["rq"].close = 1

\* C29: whenever a queue's channel closes, or its channel-open, declare or
\* consume request fails, the queue has its channel, its name and its
\* consumer tag cleared and emits "close" with the causing error ("Channel
\* closed" for a closed channel, else the error of the request); a queue
\* that has emitted "close" stays cleared.
C29_QueueTeardown ==
    /\ [][\A q \in Queues :
             LET closes == bchan[q] = "open" /\ bchan'[q] = "closed"
                 fails  == \/ qDeclare[q] = "pending" /\ qDeclare'[q] = "failed"
                           \/ qConsume[q] = "pending" /\ qConsume'[q] = "failed"
                           \/ /\ openReqs # <<>> /\ Head(openReqs) = q
                              /\ Len(openReqs') < Len(openReqs)
                              /\ bchan'[q] = "none"
             IN  (closes \/ fails) =>
                     /\ ~qChan'[q] /\ ~qName'[q] /\ ~qTag'[q]
                     /\ qEmitted'[q].close = qEmitted[q].close + 1
                     /\ qCloseErr'[q] = IF closes THEN ChannelClosedError
                                        ELSE BrokerError]_vars
    /\ [](\A q \in Queues :
            qEmitted[q].close > 0 => ~qChan[q] /\ ~qName[q] /\ ~qTag[q])

C29_Witness ==
    /\ qEmitted["uq"].close = 1 /\ qCloseErr["uq"] = ChannelClosedError
    /\ qConsume["uq"] = "ok" /\ ~qTag["uq"] /\ bchan["uq"] = "closed"

C30_PurgeWithoutChannelIsNoOp ==
    [][(Len(purgeAt') > Len(purgeAt) /\ ~qChan["uq"]) =>
          /\ purgeReqs' = purgeReqs /\ purgeLog' = purgeLog
          /\ qChan' = qChan /\ qName' = qName /\ qTag' = qTag
          /\ qEmitted' = qEmitted /\ qCloseErr' = qCloseErr
          /\ uqStore' = uqStore /\ emitted' = emitted
          /\ ~thrown']_vars

C30_Witness ==
    /\ Len(purgeAt) = MaxPurges /\ ~purgeAt[1] /\ ~purgeAt[MaxPurges]
    /\ qEmitted["uq"].close > 0 /\ qLog["uq"] = QueueSteps
    /\ purgeReqs = <<>> /\ purgeLog = <<>> /\ ~thrown

\* C31: a queue() call made before the exchange was given a connection
\* makes no Queue.connect call while the exchange has not emitted "ready";
\* the step in which the exchange emits "ready" makes exactly one, which
\* requests the queue's channel; a queue() call on an exchange that holds a
\* connection makes that one call within the queue() call; and no queue is
\* ever connected twice.
C31_DeferredQueueConnect ==
    /\ [](uqMadeAt = "unconnected" /\ emitted.ready = 0 =>
              qConnects["uq"] = 0 /\ bchan["uq"] = "none")
    /\ [][(uqMadeAt = "unconnected" /\ emitted'.ready > emitted.ready) =>
              /\ qConnects'["uq"] = 1
              /\ openReqs' # <<>> /\ openReqs'[Len(openReqs')] = "uq"
              /\ ~thrown']_vars
    /\ [][(uqMadeAt = "none" /\ uqMadeAt' # "none" /\ exConn) =>
              /\ qConnects'["uq"] = 1
              /\ openReqs' = Append(openReqs, "uq")]_vars
    /\ [](qConnects["uq"] <= 1)

BindFailed == \E k \in 1..MaxKeys : bindSt[k] = "err"

\* C32: when a bind request of a queue() call has failed, "bound" is never
\* emitted on the queue and the catch of the call has run the exchange's
\* bail exactly once, however many of the requests fail; that bail clears
\* the exchange's channel and connection and emits "close" with the error
\* of the bind.
C32_BindFailureBailsOnce ==
    /\ [](BindFailed => qEmitted["uq"].bound = 0 /\ bindBails = 1)
    /\ [][(bindBails' > bindBails /\ BindFailed') =>
              /\ ~exConn' /\ ~exChan'
              /\ emitted'.close = emitted.close + 1
              /\ exCloseErr' = BindError]_vars

C32_Witness ==
    /\ uqKeys = MaxKeys /\ \A k \in 1..MaxKeys : bindSt[k] = "err"
    /\ bindBails = 1 /\ qEmitted["uq"].bound = 0
    /\ exCloseErr = BindError

\* C33: on a non-nameless exchange, a queue() call given neither key nor
\* keys requests exactly one binding of the queue, and "bound" is emitted
\* only when that binding has succeeded.
C33_DefaultBinding ==
    (uqKeys # -1 /\ uqOptions = NoKey /\ ~isNameless) =>
        /\ \A k \in 2..MaxKeys : bindSt[k] = "none"
        /\ qEmitted["uq"].bound > 0 => bindSt[1] = "ok"

\* C34: a step in which the queue made by queue() emits "close" runs the
\* exchange's bail: the exchange's connection and channel are cleared and
\* the exchange emits "close" once, with the error the queue's "close"
\* carried.
C34_QueueCloseBailsExchange ==
    [][qEmitted'["uq"].close > qEmitted["uq"].close =>
          /\ ~exConn' /\ ~exChan'
          /\ emitted'.close = emitted.close + 1
          /\ exCloseErr' = qCloseErr'["uq"]]_vars

C34_Witness ==
    /\ qEmitted["uq"].close = 1 /\ emitted.close = 1
    /\ qCloseErr["uq"] = ChannelClosedError /\ exCloseErr = ChannelClosedError
    /\ bchan["ex"] = "open" /\ emitted.ready = 1
    /\ ~exConn /\ ~exChan

\* C35: no operation is ever attempted on a channel or connection reference
\* that is unset or was cleared by a teardown, and nothing is thrown.
C35_NoOperationOnUnsetReference ==
    nullOps = 0 /\ ~thrown

\* C36: a consume() call is not lost: once the queue has emitted "ready"
\* and while it has its channel, a consume() call that has been made has had
\* its consume request issued, whether it was made before "ready" or after.
C36_ConsumeIsNotLost ==
    (userConsume /\ qEmitted["uq"].ready > 0 /\ qChan["uq"]) =>
        qConsume["uq"] # "none"

\* C37: every message delivered to the queue whose body decoded has been
\* passed to the consumer callback, exactly once and in the order of
\* delivery, whatever the decoded value is.
C37_EveryDecodedValueIsDelivered ==
    uqGot = uqDecoded

====
